---------------------------- MODULE Spec2Model ----------------------------
(***************************************************************************)
(* A model of python/prophet/models.py: the Stan backend interface, its    *)
(* two implementations (CmdStanPyBackend, PyStanBackend) and the backend   *)
(* registry (StanBackendEnum).                                             *)
(*                                                                         *)
(* Representation.                                                         *)
(*  - A column name is a sequence of lexemes: a run of identifier          *)
(*    characters is one lexeme ("delta", "1"), and each of ".", "[", "]"   *)
(*    is a lexeme of its own, so str.split on "." or "[" acts on it as on  *)
(*    the character string.                                                *)
(*  - A numpy array is [shape, flat]: its shape and its cells in row-major *)
(*    (C) order, which is what slicing and reshape act on.  A cell is the  *)
(*    tuple of coordinates it had in the array the engine returned, so a   *)
(*    slice or a reshape that moves a cell is visible.                     *)
(*  - An OrderedDict / dict is the sequence of its [key, val] entries in   *)
(*    insertion order.                                                     *)
(*  - The Stan engines (cmdstanpy, pystan) are the environment: what an    *)
(*    invocation returns or raises is an input of the action.              *)
(***************************************************************************)
EXTENDS Integers, Sequences, FiniteSets, TLC

VARIABLES
    backend,          \* class of the backend instance, "none" before construction
    model,            \* self.model
    stan_fit,         \* self.stan_fit
    newton_fallback,  \* self.newton_fallback
    loadCount,        \* number of load_model() calls made so far
    last              \* the last operation: its inputs, engine invocations and outcome

vars == <<backend, model, stan_fit, newton_fallback, loadCount, last>>

----------------------------------------------------------------------------
(* Bounds of the model *)

MaxCols == 3      \* longest column-name sequence given to stan_to_dict_numpy
MaxRows == 2      \* most rows of a 2-D array given to stan_to_dict_numpy
MaxDraws == 2     \* most draws per chain an engine returns
MaxChains == 2    \* most chains an engine returns

----------------------------------------------------------------------------
(* Sequences *)

Min(a, b) == IF a < b THEN a ELSE b

Max(a, b) == IF a < b THEN b ELSE a

RECURSIVE Flatten(_)
Flatten(ss) == IF ss = <<>> THEN <<>> ELSE Head(ss) \o Flatten(Tail(ss))

RECURSIVE SeqsUpTo(_, _)
SeqsUpTo(S, n) ==
    IF n = 0 THEN {<<>>}
    ELSE LET shorter == SeqsUpTo(S, n - 1)
         IN  shorter \cup {Append(s, x) : s \in shorter, x \in S}

----------------------------------------------------------------------------
(* numpy arrays *)

RECURSIVE Product(_)
Product(shape) == IF shape = <<>> THEN 1 ELSE Head(shape) * Product(Tail(shape))

\* the array of the given shape whose cells, in row-major order, are flat
Array(shape, flat) == [shape |-> shape, flat |-> flat]

\* a.reshape(shape), where one entry of shape may be -1 (inferred)
Reshape(a, shape) ==
    LET known == Product([i \in 1..Len(shape) |-> IF shape[i] = -1 THEN 1 ELSE shape[i]])
        inferred == IF known = 0 THEN 0 ELSE Len(a.flat) \div known
    IN  Array([i \in 1..Len(shape) |-> IF shape[i] = -1 THEN inferred ELSE shape[i]],
              a.flat)

\* data[start:end] of a 1-D array (0-based, end exclusive, clamped as Python does)
Slice1(a, start, end) ==
    LET n == a.shape[1]
        lo == Min(start, n)
        hi == Max(lo, Min(end, n))
    IN  Array(<<hi - lo>>, SubSeq(a.flat, lo + 1, hi))

\* data[:, start:end] of a 2-D array
Slice2(a, start, end) ==
    LET rows == a.shape[1]
        cols == a.shape[2]
        lo == Min(start, cols)
        hi == Max(lo, Min(end, cols))
    IN  Array(<<rows, hi - lo>>,
              Flatten([r \in 1..rows |->
                         SubSeq(a.flat, (r - 1) * cols + lo + 1, (r - 1) * cols + hi)]))

----------------------------------------------------------------------------
(* Column names *)

Contains(s, ch) == \E i \in 1..Len(s) : s[i] = ch

\* index of the first occurrence of ch in s, Len(s) + 1 when there is none
IndexOf(s, ch) ==
    IF Contains(s, ch) THEN CHOOSE i \in 1..Len(s) : s[i] = ch /\ \A j \in 1..(i - 1) : s[j] # ch
    ELSE Len(s) + 1

\* s.split(ch)[0]
SplitHead(s, ch) == SubSeq(s, 1, IndexOf(s, ch) - 1)

\* parsed[0] of stan_to_dict_numpy
BaseName(cname) ==
    IF Contains(cname, ".") THEN SplitHead(cname, ".") ELSE SplitHead(cname, "[")

\* dictionary keys: a base name, or None
NoneKey == [none |-> TRUE, name |-> <<>>]

Key(name) == [none |-> FALSE, name |-> name]

HasKey(output, key) == \E j \in 1..Len(output) : output[j].key = key

----------------------------------------------------------------------------
(* CmdStanPyBackend.stan_to_dict_numpy *)

\* the slice stored for one run
RunSlice(data, two_dims, start, end) ==
    IF two_dims THEN Slice2(data, start, end) ELSE Slice1(data, start, end)

\* one iteration of the loop over column_names; st is the loop state
DemuxStep(st, cname, data, two_dims) ==
    LET curr == Key(BaseName(cname))
        prev == IF st.prev = NoneKey THEN curr ELSE st.prev
    IN  IF st.raised THEN st
        ELSE IF curr # prev
        THEN IF HasKey(st.output, prev)
             THEN [st EXCEPT !.raised = TRUE]
             ELSE [st EXCEPT
                     !.output = Append(@, [key |-> prev,
                                           val |-> RunSlice(data, two_dims, st.start, st.end)]),
                     !.prev = curr,
                     !.start = st.end,
                     !.end = st.end + 1]
        ELSE [st EXCEPT !.prev = prev, !.end = st.end + 1]

RECURSIVE DemuxLoop(_, _, _, _)
DemuxLoop(st, names, data, two_dims) ==
    IF names = <<>> THEN st
    ELSE DemuxLoop(DemuxStep(st, Head(names), data, two_dims), Tail(names), data, two_dims)

\* the whole function: [raised, output]
stan_to_dict_numpy(column_names, data) ==
    LET two_dims == Len(data.shape) > 1
        st0 == [output |-> <<>>, prev |-> NoneKey, start |-> 0, end |-> 0, raised |-> FALSE]
        st == DemuxLoop(st0, column_names, data, two_dims)
    IN  IF st.raised \/ HasKey(st.output, st.prev)
        THEN [raised |-> TRUE, output |-> <<>>]
        ELSE [raised |-> FALSE,
              output |-> Append(st.output,
                                [key |-> st.prev,
                                 val |-> RunSlice(data, two_dims, st.start, st.end)])]

----------------------------------------------------------------------------
(* Keyword arguments and argument dictionaries: functions from key to value *)

NoKwargs == [k \in {} |-> 0]

\* the dictionaries that hold key with one of vals, or do not hold it
Optional(key, vals) == {NoKwargs} \cup {key :> v : v \in vals}

\* d.update(kw)
Update(d, kw) ==
    [k \in DOMAIN d \cup DOMAIN kw |-> IF k \in DOMAIN kw THEN kw[k] ELSE d[k]]

----------------------------------------------------------------------------
(* Inputs of the operations *)

NameK == <<"k">>
NameM == <<"m">>
Bracket(base, i) == <<base, "[", i, "]">>
Dotted(base, i) == <<base, ".", i>>

\* the caller's stan_data (only T is read by this module) and stan_init
StanData(T) == [T |-> T, fmt |-> "numpy"]
StanInit == [name |-> "stan_init", fmt |-> "numpy"]
KwInit == [name |-> "kwargs_init", fmt |-> "numpy"]

TValues == {50, 99, 100, 500}

FitKwargs ==
    {a @@ i : a \in Optional("algorithm", {"Newton", "LBFGS"}), i \in Optional("iter", {500})}
    \cup {"init" :> KwInit}

SamplesValues == {5, 6}

SamplingKwargs ==
    {c @@ s @@ w : c \in Optional("chains", {2}),
                   s \in Optional("iter_sampling", {7}),
                   w \in Optional("iter_warmup", {9})}
    \cup {"init" :> KwInit}

OptionKeys == {"newton_fallback", "bogus"}

\* set_options(**kwargs): the items in order, no key twice
OptionKwargs ==
    {kw \in SeqsUpTo(OptionKeys \X BOOLEAN, 2) :
        \A i, j \in 1..Len(kw) : i # j => kw[i][1] # kw[j][1]}

BackendNames == {"PYSTAN", "CMDSTANPY", "pystan", "Cmdstanpy", "nonexistent"}

----------------------------------------------------------------------------
(* The Stan engines: what an invocation may return or raise *)

NoArray == Array(<<0>>, <<>>)

NoResult == [kind |-> "None", column_names |-> <<>>, values |-> NoArray, pars |-> <<>>]

EngineLayouts ==
    { <<NameK, Bracket("delta", "1"), Bracket("delta", "2"), Bracket("beta", "1")>>,
      <<NameK, Dotted("delta", "1"), Dotted("delta", "2")>>,
      <<NameK, NameM, NameK>> }

\* CmdStanMLE: column_names and optimized_params_np, a 1-D array
CmdStanMLE(L) ==
    [kind |-> "CmdStanMLE", column_names |-> L,
     values |-> Array(<<Len(L)>>, [i \in 1..Len(L) |-> <<0, 0, i - 1>>]), pars |-> <<>>]

\* CmdStanMCMC: column_names and draws(), of shape (draws, chains, columns)
CmdStanMCMC(L, n, C) ==
    [kind |-> "CmdStanMCMC", column_names |-> L,
     values |-> Array(<<n, C, Len(L)>>,
                      [i \in 1..(n * C * Len(L)) |->
                          <<(i - 1) \div (C * Len(L)),
                            ((i - 1) \div Len(L)) % C,
                            (i - 1) % Len(L)>>]),
     pars |-> <<>>]

\* a pystan parameter array of the given shape
ParArray(par, shape) ==
    Array(shape, [i \in 1..Product(shape) |-> <<par, i - 1>>])

PyStanPar(par, shape) == [key |-> Key(<<par>>), val |-> ParArray(par, shape)]

\* pystan optimizing(): an OrderedDict from parameter to array
PyStanOptimum(S) ==
    [kind |-> "optimizing", column_names |-> <<>>, values |-> NoArray,
     pars |-> <<PyStanPar("k", <<>>), PyStanPar("delta", <<S>>)>>]

\* pystan sampling(): model_pars and, per parameter, the extracted draws
PyStanDraws(rows, deltaShape) ==
    [kind |-> "StanFit4Model", column_names |-> <<>>, values |-> NoArray,
     pars |-> <<PyStanPar("k", <<rows>>), PyStanPar("delta", deltaShape),
                PyStanPar("beta", <<rows, 1>>)>>]

Returns(r) == [raises |-> "none", result |-> r]
Raises(e) == [raises |-> e, result |-> NoResult]

EngineErrors == {Raises("RuntimeError"), Raises("ValueError")}

CmdStanPyOptimizeOutcomes ==
    EngineErrors \cup {Returns(CmdStanMLE(L)) : L \in EngineLayouts}

PyStanOptimizeOutcomes ==
    EngineErrors \cup {Returns(PyStanOptimum(S)) : S \in 1..2}

CmdStanPySampleOutcomes ==
    {Raises("RuntimeError")} \cup
    {Returns(CmdStanMCMC(L, n, C)) : L \in EngineLayouts, n \in 1..MaxDraws, C \in 1..MaxChains}

PyStanSampleOutcomes ==
    {Raises("RuntimeError")} \cup
    UNION {{Returns(PyStanDraws(rows, sh)) : sh \in {<<rows>>, <<rows, 2>>}} :
              rows \in 1..MaxDraws}

OptimizeOutcomes(cls) ==
    IF cls = "CmdStanPyBackend" THEN CmdStanPyOptimizeOutcomes ELSE PyStanOptimizeOutcomes

SampleOutcomes(cls) ==
    IF cls = "CmdStanPyBackend" THEN CmdStanPySampleOutcomes ELSE PyStanSampleOutcomes

----------------------------------------------------------------------------
(* StanBackendEnum *)

\* the members of the enumeration: name -> value
StanBackendEnum == [PYSTAN |-> "PyStanBackend", CMDSTANPY |-> "CmdStanPyBackend"]

BackendClasses == {StanBackendEnum[n] : n \in DOMAIN StanBackendEnum}

\* the names of BackendNames in upper case
Upper(name) ==
    CASE name = "pystan" -> "PYSTAN"
      [] name = "Cmdstanpy" -> "CMDSTANPY"
      [] OTHER -> name

\* EnumLookup, were the lookup to ignore case
EnumLookupIgnoringCase(name) ==
    IF Upper(name) \in DOMAIN StanBackendEnum
    THEN [raised |-> "none", value |-> StanBackendEnum[Upper(name)]]
    ELSE [raised |-> "KeyError", value |-> "none"]

\* StanBackendEnum[name]: the member of that exact name; KeyError when there is none
EnumLookup(name) ==
    IF name \in DOMAIN StanBackendEnum
    THEN [raised |-> "none", value |-> StanBackendEnum[name]]
    ELSE [raised |-> "KeyError", value |-> "none"]

\* StanBackendEnum.get_backend_class(name)
get_backend_class(name) ==
    LET r == EnumLookup(name)
    IN  IF r.raised = "KeyError" THEN [raised |-> "ValueError", value |-> "none"] ELSE r

\* PyStanBackend.get_type() and CmdStanPyBackend.get_type(): the member's name
get_type(cls) ==
    IF cls = "PyStanBackend" THEN "PYSTAN" ELSE "CMDSTANPY"

----------------------------------------------------------------------------
(* IStanBackend *)

\* load_model() of the class: the handle of the loaded model
load_model(cls) ==
    IF cls = "CmdStanPyBackend" THEN "prophet_model.bin" ELSE "prophet_model.pkl"

\* SetOption, were an unknown key skipped
SetOptionIgnoringUnknown(st, item) ==
    IF item[1] = "newton_fallback" THEN [st EXCEPT !.flag = item[2]] ELSE st

\* one item of set_options' loop; st = [flag, raised]
SetOption(st, item) ==
    IF st.raised # "none" THEN st
    ELSE IF item[1] = "newton_fallback" THEN [st EXCEPT !.flag = item[2]]
    ELSE [st EXCEPT !.raised = "ValueError"]

RECURSIVE SetOptionsLoop(_, _)
SetOptionsLoop(st, items) ==
    IF items = <<>> THEN st ELSE SetOptionsLoop(SetOption(st, Head(items)), Tail(items))

\* SetStanFit, were a result kept once there is one
SetStanFitOnce(old, new) == IF old = NoResult THEN new ELSE old

\* self.stan_fit = <the engine's result>
SetStanFit(old, new) == new

----------------------------------------------------------------------------
(* CmdStanPyBackend *)

\* prepare_data(init, data): .tolist() of the numpy fields; AttributeError on
\* fields that are lists already
prepare_data(init, data) ==
    IF data.fmt # "numpy" \/ init.fmt # "numpy"
    THEN [raised |-> "AttributeError", init |-> init, data |-> data]
    ELSE [raised |-> "none",
          init |-> [init EXCEPT !.fmt = "list"],
          data |-> [data EXCEPT !.fmt = "list"]]

\* the kwargs after lines 131-132 / 164-165: [raised, kwargs]
WithInits(kwargs, data) ==
    IF "inits" \notin DOMAIN kwargs /\ "init" \in DOMAIN kwargs
    THEN LET p == prepare_data(kwargs["init"], data)
         IN  [raised |-> p.raised, kwargs |-> Update(kwargs, "inits" :> p.init)]
    ELSE [raised |-> "none", kwargs |-> kwargs]

\* the algorithm fit starts with when the caller names none
CmdStanPyDefaultAlgorithm(T) == IF T < 100 THEN "Newton" ELSE "LBFGS"

CmdStanPyFitArgs(init, data, kwargs) ==
    Update([data |-> data, inits |-> init,
            algorithm |-> CmdStanPyDefaultAlgorithm(data.T), iter |-> 10000],
           kwargs)

\* CmdStanPyRetries, were the flag not read
CmdStanPyRetriesWhateverFlag(nf, args) == args["algorithm"] # "Newton"

\* whether the except clause of fit retries
CmdStanPyRetries(nf, args) == nf /\ args["algorithm"] # "Newton"

\* the try statement of fit: [calls, raised, stan_fit]; o1, o2 are what the
\* first and the second invocation of model.optimize do
CmdStanPyOptimize(nf, fit0, args, o1, o2) ==
    IF o1.raises = "none"
    THEN [calls |-> <<args>>, raised |-> "none", stan_fit |-> SetStanFit(fit0, o1.result)]
    ELSE IF o1.raises = "RuntimeError" /\ CmdStanPyRetries(nf, args)
    THEN LET args2 == [args EXCEPT !["algorithm"] = "Newton"]
         IN  IF o2.raises = "none"
             THEN [calls |-> <<args, args2>>, raised |-> "none",
                   stan_fit |-> SetStanFit(fit0, o2.result)]
             ELSE [calls |-> <<args, args2>>, raised |-> o2.raises, stan_fit |-> fit0]
    ELSE [calls |-> <<args>>, raised |-> o1.raises, stan_fit |-> fit0]

\* params[par] = params[par].reshape((1, -1)) for every par
RowShaped(params) ==
    [i \in 1..Len(params) |-> [params[i] EXCEPT !.val = Reshape(@, <<1, -1>>)]]

\* CmdStanPyBackend.fit: [calls, raised, stan_fit, params]
CmdStanPyFit(nf, fit0, stan_init, stan_data, kwargs, o1, o2) ==
    LET prep == prepare_data(stan_init, stan_data)
        kw == WithInits(kwargs, prep.data)
        failed(e) == [calls |-> <<>>, raised |-> e, stan_fit |-> fit0, params |-> <<>>]
    IN  IF prep.raised # "none" THEN failed(prep.raised)
        ELSE IF kw.raised # "none" THEN failed(kw.raised)
        ELSE LET opt == CmdStanPyOptimize(nf, fit0,
                                          CmdStanPyFitArgs(prep.init, prep.data, kw.kwargs),
                                          o1, o2)
                 dict == stan_to_dict_numpy(opt.stan_fit.column_names, opt.stan_fit.values)
             IN  IF opt.raised # "none"
                 THEN [calls |-> opt.calls, raised |-> opt.raised,
                       stan_fit |-> opt.stan_fit, params |-> <<>>]
                 ELSE IF dict.raised
                 THEN [calls |-> opt.calls, raised |-> "RuntimeError",
                       stan_fit |-> opt.stan_fit, params |-> <<>>]
                 ELSE [calls |-> opt.calls, raised |-> "none",
                       stan_fit |-> opt.stan_fit, params |-> RowShaped(dict.output)]


\* the kwargs of sampling after its defaults are set (lines 172-177)
CmdStanPySamplingKwargs(samples, kwargs) ==
    LET kw1 == IF "chains" \notin DOMAIN kwargs THEN Update(kwargs, "chains" :> 4) ELSE kwargs
        iter_half == samples \div 2
        kw2 == Update(kw1, "iter_sampling" :> iter_half)
    IN  IF "iter_warmup" \notin DOMAIN kw2 THEN Update(kw2, "iter_warmup" :> iter_half) ELSE kw2

\* res = self.stan_fit.draws() reshaped to (samples * c, columns)
FlattenDraws(draws) ==
    Reshape(draws, <<draws.shape[1] * draws.shape[2], draws.shape[3]>>)

\* one iteration of the loop over params (lines 187-193)
CmdStanPyShape(entry) ==
    LET s == entry.val.shape
        v1 == IF s[2] = 1 THEN Reshape(entry.val, <<s[1]>>) ELSE entry.val
        v2 == IF entry.key \in {Key(<<"delta">>), Key(<<"beta">>)} /\ Len(s) < 2
              THEN Reshape(v1, <<-1, 1>>) ELSE v1
    IN  [entry EXCEPT !.val = v2]

\* CmdStanPyBackend.sampling: [calls, raised, stan_fit, res, params]
CmdStanPySampling(fit0, stan_init, stan_data, samples, kwargs, o) ==
    LET prep == prepare_data(stan_init, stan_data)
        kw == WithInits(kwargs, prep.data)
        failed(c, e, f) == [calls |-> c, raised |-> e, stan_fit |-> f,
                            res |-> NoArray, params |-> <<>>]
    IN  IF prep.raised # "none" THEN failed(<<>>, prep.raised, fit0)
        ELSE IF kw.raised # "none" THEN failed(<<>>, kw.raised, fit0)
        ELSE LET args == Update([data |-> prep.data, inits |-> prep.init],
                                CmdStanPySamplingKwargs(samples, kw.kwargs))
                 res == FlattenDraws(o.result.values)
                 dict == stan_to_dict_numpy(o.result.column_names, res)
             IN  IF o.raises # "none" THEN failed(<<args>>, o.raises, fit0)
                 ELSE IF dict.raised
                 THEN [calls |-> <<args>>, raised |-> "RuntimeError",
                       stan_fit |-> SetStanFit(fit0, o.result), res |-> res, params |-> <<>>]
                 ELSE [calls |-> <<args>>, raised |-> "none",
                       stan_fit |-> SetStanFit(fit0, o.result), res |-> res,
                       params |-> [i \in 1..Len(dict.output) |->
                                      CmdStanPyShape(dict.output[i])]]

----------------------------------------------------------------------------
(* PyStanBackend *)

\* PyStanDefaultAlgorithm, were the threshold inclusive
PyStanDefaultAlgorithmInclusive(T) == IF T <= 100 THEN "Newton" ELSE "LBFGS"

\* the algorithm fit starts with when the caller names none
PyStanDefaultAlgorithm(T) == IF T < 100 THEN "Newton" ELSE "LBFGS"

\* args of fit; iter is the float 1e4 in the source, the number 10000
PyStanFitArgs(init, data, kwargs) ==
    Update([data |-> data, init |-> [init EXCEPT !.fmt = "lambda"],
            algorithm |-> PyStanDefaultAlgorithm(data.T), iter |-> 10000],
           kwargs)

PyStanRetries(nf, args) == nf /\ args["algorithm"] # "Newton"

\* the try statement of fit: [calls, raised, stan_fit]
PyStanOptimizing(nf, fit0, args, o1, o2) ==
    IF o1.raises = "none"
    THEN [calls |-> <<args>>, raised |-> "none", stan_fit |-> SetStanFit(fit0, o1.result)]
    ELSE IF o1.raises = "RuntimeError" /\ PyStanRetries(nf, args)
    THEN LET args2 == [args EXCEPT !["algorithm"] = "Newton"]
         IN  IF o2.raises = "none"
             THEN [calls |-> <<args, args2>>, raised |-> "none",
                   stan_fit |-> SetStanFit(fit0, o2.result)]
             ELSE [calls |-> <<args, args2>>, raised |-> o2.raises, stan_fit |-> fit0]
    ELSE [calls |-> <<args>>, raised |-> o1.raises, stan_fit |-> fit0]

\* PyStanBackend.fit: [calls, raised, stan_fit, params]
PyStanFit(nf, fit0, stan_init, stan_data, kwargs, o1, o2) ==
    LET opt == PyStanOptimizing(nf, fit0, PyStanFitArgs(stan_init, stan_data, kwargs), o1, o2)
    IN  [calls |-> opt.calls, raised |-> opt.raised, stan_fit |-> opt.stan_fit,
         params |-> IF opt.raised # "none" THEN <<>> ELSE RowShaped(opt.stan_fit.pars)]

\* one iteration of the loop over model_pars (lines 287-291)
PyStanShape(entry) ==
    IF entry.key \in {Key(<<"delta">>), Key(<<"beta">>)} /\ Len(entry.val.shape) < 2
    THEN [entry EXCEPT !.val = Reshape(@, <<-1, 1>>)]
    ELSE entry

\* PyStanBackend.sampling: [calls, raised, stan_fit, res, params]
PyStanSampling(fit0, stan_init, stan_data, samples, kwargs, o) ==
    LET args == Update([data |-> stan_data, init |-> [stan_init EXCEPT !.fmt = "lambda"],
                        iter |-> samples],
                       kwargs)
    IN  IF o.raises # "none"
        THEN [calls |-> <<args>>, raised |-> o.raises, stan_fit |-> fit0,
              res |-> NoArray, params |-> <<>>]
        ELSE [calls |-> <<args>>, raised |-> "none", stan_fit |-> SetStanFit(fit0, o.result),
              res |-> NoArray,
              params |-> [i \in 1..Len(o.result.pars) |-> PyStanShape(o.result.pars[i])]]

----------------------------------------------------------------------------
(* The state machine: one backend instance and its callers *)

\* before the instance is constructed its fields do not exist: placeholders
Init ==
    /\ backend = "none"
    /\ model = "none"
    /\ stan_fit = NoResult
    /\ newton_fallback = FALSE
    /\ loadCount = 0
    /\ last = [op |-> "start"]

\* StanBackendEnum.get_backend_class(name)
GetBackendClass(name) ==
    /\ last' = [op |-> "get_backend_class", name |-> name,
                raised |-> get_backend_class(name).raised,
                value |-> get_backend_class(name).value]
    /\ UNCHANGED <<backend, model, stan_fit, newton_fallback, loadCount>>

\* cls(): IStanBackend.__init__
Construct(cls) ==
    /\ backend = "none"
    /\ backend' = cls
    /\ model' = load_model(cls)
    /\ loadCount' = loadCount + 1
    /\ stan_fit' = NoResult
    /\ newton_fallback' = TRUE
    /\ last' = [op |-> "__init__", cls |-> cls]

\* IStanBackend.set_options(**kwargs)
SetOptions(kwargs) ==
    /\ backend # "none"
    /\ LET r == SetOptionsLoop([flag |-> newton_fallback, raised |-> "none"], kwargs)
       IN  /\ newton_fallback' = r.flag
           /\ last' = [op |-> "set_options", kwargs |-> kwargs, raised |-> r.raised,
                       pre |-> [model |-> model, newton_fallback |-> newton_fallback]]
    /\ UNCHANGED <<backend, model, stan_fit, loadCount>>

\* fit(stan_init, stan_data, **kwargs) of the instance's class
FitResult(T, kwargs, o1, o2) ==
    IF backend = "CmdStanPyBackend"
    THEN CmdStanPyFit(newton_fallback, stan_fit, StanInit, StanData(T), kwargs, o1, o2)
    ELSE PyStanFit(newton_fallback, stan_fit, StanInit, StanData(T), kwargs, o1, o2)

Fit(T, kwargs, o1, o2) ==
    /\ backend # "none"
    /\ LET r == FitResult(T, kwargs, o1, o2)
       IN  /\ Len(r.calls) < 1 => o1 = Raises("RuntimeError")
           /\ Len(r.calls) < 2 => o2 = Raises("RuntimeError")
           /\ stan_fit' = r.stan_fit
           /\ last' = [op |-> "fit", T |-> T, kwargs |-> kwargs,
                       outcomes |-> SubSeq(<<o1, o2>>, 1, Len(r.calls)),
                       calls |-> r.calls, raised |-> r.raised, params |-> r.params,
                       pre |-> [model |-> model, newton_fallback |-> newton_fallback]]
    /\ UNCHANGED <<backend, model, newton_fallback, loadCount>>

\* sampling(stan_init, stan_data, samples, **kwargs) of the instance's class
SamplingResult(T, samples, kwargs, o) ==
    IF backend = "CmdStanPyBackend"
    THEN CmdStanPySampling(stan_fit, StanInit, StanData(T), samples, kwargs, o)
    ELSE PyStanSampling(stan_fit, StanInit, StanData(T), samples, kwargs, o)

Sampling(samples, kwargs, o) ==
    /\ backend # "none"
    /\ LET r == SamplingResult(100, samples, kwargs, o)
       IN  /\ Len(r.calls) < 1 => o = Raises("RuntimeError")
           /\ stan_fit' = r.stan_fit
           /\ last' = [op |-> "sampling", samples |-> samples, kwargs |-> kwargs,
                       outcomes |-> SubSeq(<<o>>, 1, Len(r.calls)),
                       calls |-> r.calls, raised |-> r.raised, res |-> r.res,
                       params |-> r.params,
                       pre |-> [model |-> model, newton_fallback |-> newton_fallback]]
    /\ UNCHANGED <<backend, model, newton_fallback, loadCount>>

\* the outcomes of the second invocation of the engine, when fit makes one
SecondOutcomes(T, kwargs, o1) ==
    IF Len(FitResult(T, kwargs, o1, Raises("RuntimeError")).calls) = 2
    THEN OptimizeOutcomes(backend)
    ELSE {Raises("RuntimeError")}

\* the sampling calls of the lifecycle specification: one call with no override,
\* one with an override, an engine that fails or returns one result
LifecycleSamplingKwargs == {NoKwargs, "chains" :> 2}

LifecycleSampleOutcomes(cls) ==
    {Raises("RuntimeError")} \cup
    (IF cls = "CmdStanPyBackend"
     THEN {Returns(CmdStanMCMC(<<NameK, Bracket("delta", "1"), Bracket("delta", "2")>>, 2, 2))}
     ELSE {Returns(PyStanDraws(2, <<2, 2>>))})

Next ==
    \/ \E name \in BackendNames : GetBackendClass(name)
    \/ \E cls \in BackendClasses : Construct(cls)
    \/ \E kwargs \in OptionKwargs : SetOptions(kwargs)
    \/ \E T \in TValues, kwargs \in FitKwargs :
          \E o1 \in OptimizeOutcomes(backend) :
             \E o2 \in SecondOutcomes(T, kwargs, o1) : Fit(T, kwargs, o1, o2)
    \/ \E kwargs \in LifecycleSamplingKwargs :
          \E o \in LifecycleSampleOutcomes(backend) : Sampling(5, kwargs, o)

\* the lifecycle of one backend instance
Spec == Init /\ [][Next]_vars

----------------------------------------------------------------------------
(* Sampling on a constructed instance, over every engine result of the bounds *)

SamplingInit ==
    /\ backend \in BackendClasses
    /\ model = load_model(backend)
    /\ stan_fit = NoResult
    /\ newton_fallback = TRUE
    /\ loadCount = 1
    /\ last = [op |-> "__init__", cls |-> backend]

SamplingNext ==
    \E samples \in SamplesValues, kwargs \in SamplingKwargs :
       \E o \in SampleOutcomes(backend) : Sampling(samples, kwargs, o)

SpecSampling == SamplingInit /\ [][SamplingNext]_vars

----------------------------------------------------------------------------
(* stan_to_dict_numpy as a function: every column-name sequence of the bounds *)

DemuxNames ==
    { NameK,
      Dotted("delta", "1"), Dotted("delta", "2"),
      Bracket("delta", "1"), Bracket("beta", "1"),
      Bracket("delta", "1") \o <<".", "x">>, Bracket("delta", "2") \o <<".", "x">>,
      Dotted("beta", "1") \o <<"[", "2", "]">> }

\* a 1-D array of n cells (rows = 0) or a 2-D array of rows x n cells
DemuxData(rows, n) ==
    IF rows = 0 THEN Array(<<n>>, [i \in 1..n |-> <<0, i - 1>>])
    ELSE Array(<<rows, n>>, [i \in 1..(rows * n) |-> <<(i - 1) \div n, (i - 1) % n>>])

DemuxInit ==
    /\ backend = "none"
    /\ model = "none"
    /\ stan_fit = NoResult
    /\ newton_fallback = FALSE
    /\ loadCount = 0
    /\ \E names \in SeqsUpTo(DemuxNames, MaxCols), rows \in 0..MaxRows :
          last = [op |-> "input", column_names |-> names,
                  data |-> DemuxData(rows, Len(names))]

\* CmdStanPyBackend.stan_to_dict_numpy(column_names, data)
Demux ==
    /\ last.op = "input"
    /\ LET r == stan_to_dict_numpy(last.column_names, last.data)
       IN  last' = [op |-> "stan_to_dict_numpy", column_names |-> last.column_names,
                    data |-> last.data,
                    raised |-> IF r.raised THEN "RuntimeError" ELSE "none",
                    output |-> r.output]
    /\ UNCHANGED <<backend, model, stan_fit, newton_fallback, loadCount>>

SpecDemux == DemuxInit /\ [][Demux]_vars

----------------------------------------------------------------------------
(* Properties *)

\* the text before the first "." or "[" of a column name, whichever comes first
TextBeforeIndex(cname) ==
    SubSeq(cname, 1, Min(IndexOf(cname, "."), IndexOf(cname, "[")) - 1)

\* the maximal runs of equal neighbours of a sequence: [name, lo, hi], 0-based,
\* hi exclusive
RECURSIVE RunsFrom(_, _, _)
RunsFrom(bases, i, acc) ==
    IF i > Len(bases) THEN acc
    ELSE IF acc # <<>> /\ acc[Len(acc)].name = bases[i]
    THEN RunsFrom(bases, i + 1, [acc EXCEPT ![Len(acc)].hi = i])
    ELSE RunsFrom(bases, i + 1, Append(acc, [name |-> bases[i], lo |-> i - 1, hi |-> i]))

Runs(bases) == RunsFrom(bases, 1, <<>>)

\* cell (r, c), 0-based, of a 2-D array
Cell(a, r, c) == a.flat[r * a.shape[2] + c + 1]

\* the arrays joined along the column axis
HStack(vals, rows) ==
    IF rows = 0 THEN Flatten([j \in 1..Len(vals) |-> vals[j].flat])
    ELSE Flatten([r \in 1..rows |->
                    Flatten([j \in 1..Len(vals) |->
                               SubSeq(vals[j].flat, (r - 1) * vals[j].shape[2] + 1,
                                      r * vals[j].shape[2])])])

\* the key under which column i (1-based) of the input is stored in output
RECURSIVE KeyOfColumn(_, _, _)
KeyOfColumn(output, j, i) ==
    LET w == output[j].val.shape[Len(output[j].val.shape)]
    IN  IF i <= w THEN output[j].key ELSE KeyOfColumn(output, j + 1, i - w)

\* C1 (as stated): stan_to_dict_numpy returns, for a column-name sequence whose
\* base names form N runs none of which repeats a base name, N entries in
\* first-seen order, each the slice of its run's index range, whose
\* concatenation is the data; and raises when a base name has two runs.
C1_DemuxRuns ==
    last.op = "stan_to_dict_numpy" =>
       LET names == last.column_names
           runs == Runs([i \in 1..Len(names) |-> TextBeforeIndex(names[i])])
           two_dims == Len(last.data.shape) > 1
           rows == IF two_dims THEN last.data.shape[1] ELSE 0
           repeated == \E a, b \in 1..Len(runs) : a # b /\ runs[a].name = runs[b].name
           out == last.output
       IN  IF repeated THEN last.raised = "RuntimeError"
           ELSE /\ last.raised = "none"
                /\ Len(out) = Len(runs)
                /\ \A j \in 1..Len(runs) :
                      /\ out[j].key = Key(runs[j].name)
                      /\ out[j].val = RunSlice(last.data, two_dims, runs[j].lo, runs[j].hi)
                /\ HStack([j \in 1..Len(out) |-> out[j].val], rows) = last.data.flat

\* what holds of the code instead: the same, for the base names BaseName gives
\* and a sequence that is not empty
DemuxRunsOfBaseName ==
    last.op = "stan_to_dict_numpy" /\ last.column_names # <<>> =>
       LET names == last.column_names
           runs == Runs([i \in 1..Len(names) |-> BaseName(names[i])])
           two_dims == Len(last.data.shape) > 1
           rows == IF two_dims THEN last.data.shape[1] ELSE 0
           repeated == \E a, b \in 1..Len(runs) : a # b /\ runs[a].name = runs[b].name
           out == last.output
       IN  IF repeated THEN last.raised = "RuntimeError"
           ELSE /\ last.raised = "none"
                /\ Len(out) = Len(runs)
                /\ \A j \in 1..Len(runs) :
                      /\ out[j].key = Key(runs[j].name)
                      /\ out[j].val = RunSlice(last.data, two_dims, runs[j].lo, runs[j].hi)
                /\ HStack([j \in 1..Len(out) |-> out[j].val], rows) = last.data.flat

\* C10 (as stated): every column is grouped under the text before the first
\* "." or "[" of its name, whichever comes first.
C10_BaseNameIsTextBeforeFirstIndex ==
    last.op = "stan_to_dict_numpy" /\ last.raised = "none" =>
       \A i \in 1..Len(last.column_names) :
          KeyOfColumn(last.output, 1, i) = Key(TextBeforeIndex(last.column_names[i]))

\* what holds of the code instead: a name with a "." is grouped under the text
\* before its first ".", whatever "[" comes before it
BaseNamePrefersDot ==
    last.op = "stan_to_dict_numpy" /\ last.raised = "none" =>
       \A i \in 1..Len(last.column_names) :
          LET cname == last.column_names[i]
          IN  KeyOfColumn(last.output, 1, i) =
                 Key(SubSeq(cname, 1,
                            (IF Contains(cname, ".") THEN IndexOf(cname, ".")
                             ELSE IndexOf(cname, "[")) - 1))

----------------------------------------------------------------------------
(* Properties of fit, set_options, the registry and the instance's fields *)

\* the outcome of the last engine invocation of the last operation
LastOutcome == last.outcomes[Len(last.calls)]

\* C2: fit invokes the engine a second time, with the same arguments but
\* algorithm Newton, exactly when the first invocation raised RuntimeError,
\* newton_fallback is set and the algorithm attempted was not Newton; it never
\* invokes it a third time, and a failure it does not retry, or the failure of
\* the retry, is raised to the caller.
C2_RetryOnceWithNewton ==
    last.op = "fit" =>
       /\ Len(last.calls) <= 2
       /\ Len(last.calls) >= 1 =>
             /\ Len(last.calls) = 2 <=>
                   /\ last.outcomes[1].raises = "RuntimeError"
                   /\ last.pre.newton_fallback
                   /\ last.calls[1]["algorithm"] # "Newton"
             /\ Len(last.calls) = 2 =>
                   last.calls[2] = [last.calls[1] EXCEPT !["algorithm"] = "Newton"]
             /\ LastOutcome.raises # "none" => last.raised = LastOutcome.raises

\* a fit whose retry failed too
C2_Witness ==
    /\ last.op = "fit"
    /\ Len(last.calls) = 2
    /\ last.calls[1]["algorithm"] = "LBFGS"
    /\ last.raised = "RuntimeError"

\* C3: the first invocation of fit gets the caller's algorithm, or else Newton
\* when T < 100 and LBFGS when T >= 100; and the caller's iter, or else 10000.
C3_FirstAttemptArguments ==
    last.op = "fit" /\ Len(last.calls) >= 1 =>
       /\ last.calls[1]["algorithm"] =
             IF "algorithm" \in DOMAIN last.kwargs THEN last.kwargs["algorithm"]
             ELSE IF last.T < 100 THEN "Newton" ELSE "LBFGS"
       /\ last.calls[1]["iter"] =
             IF "iter" \in DOMAIN last.kwargs THEN last.kwargs["iter"] ELSE 10000

\* a fit at T = 100 with no algorithm given
C3_Witness ==
    /\ last.op = "fit"
    /\ last.T = 100
    /\ "algorithm" \notin DOMAIN last.kwargs
    /\ Len(last.calls) >= 1
    /\ last.calls[1]["algorithm"] = "LBFGS"

\* the items of a set_options call before its first unknown key
KnownPrefix(kwargs) ==
    SubSeq(kwargs, 1,
           IF \E i \in 1..Len(kwargs) : kwargs[i][1] # "newton_fallback"
           THEN (CHOOSE i \in 1..Len(kwargs) :
                    /\ kwargs[i][1] # "newton_fallback"
                    /\ \A j \in 1..(i - 1) : kwargs[j][1] = "newton_fallback") - 1
           ELSE Len(kwargs))

\* C7: the flag is true after construction; set_options raises exactly when it
\* is given a key other than newton_fallback, and leaves the flag at the last
\* value assigned before that (the value it had, when none was); a fit whose
\* first attempt fails retries according to the flag as it is then.
C7_SetOptions ==
    /\ last.op = "__init__" => newton_fallback = TRUE
    /\ last.op = "set_options" =>
          /\ last.raised = "ValueError" <=>
                \E i \in 1..Len(last.kwargs) : last.kwargs[i][1] # "newton_fallback"
          /\ last.raised \in {"none", "ValueError"}
          /\ newton_fallback =
                IF KnownPrefix(last.kwargs) = <<>> THEN last.pre.newton_fallback
                ELSE KnownPrefix(last.kwargs)[Len(KnownPrefix(last.kwargs))][2]
    /\ (/\ last.op = "fit"
        /\ Len(last.calls) >= 1
        /\ last.outcomes[1].raises = "RuntimeError"
        /\ last.calls[1]["algorithm"] # "Newton")
       => (Len(last.calls) = 2 <=> newton_fallback)

\* a fit that does not retry because set_options cleared the flag
C7_Witness ==
    /\ last.op = "fit"
    /\ Len(last.calls) = 1
    /\ last.outcomes[1].raises = "RuntimeError"
    /\ last.calls[1]["algorithm"] # "Newton"
    /\ ~newton_fallback

\* C8: get_backend_class returns, for PYSTAN and for CMDSTANPY, the class whose
\* get_type() is that name, and raises for every other string; the lookup of a
\* class's get_type() gives the class back.
C8_Registry ==
    /\ \A cls \in BackendClasses :
          get_backend_class(get_type(cls)) = [raised |-> "none", value |-> cls]
    /\ last.op = "get_backend_class" =>
          IF last.name \in {"PYSTAN", "CMDSTANPY"}
          THEN last.raised = "none" /\ last.value \in BackendClasses
               /\ get_type(last.value) = last.name
          ELSE last.raised = "ValueError" /\ last.value = "none"

\* a lookup under a name of another case
C8_Witness ==
    /\ last.op = "get_backend_class"
    /\ last.name = "pystan"
    /\ last.raised = "ValueError"

----------------------------------------------------------------------------
(* Properties of CmdStanPyBackend.sampling *)

\* the draws the engine returned to the last sampling call
Draws == last.outcomes[1].result.values

SampledByCmdStanPy ==
    /\ last.op = "sampling"
    /\ backend = "CmdStanPyBackend"
    /\ last.raised = "none"

\* C4 (as stated): the flattened draws have chains * draws rows, and row
\* c * n + d is draw d of chain c.
C4_ChainMajorRows ==
    SampledByCmdStanPy =>
       LET n == Draws.shape[1]
           C == Draws.shape[2]
           cols == Draws.shape[3]
       IN  /\ last.res.shape = <<C * n, cols>>
           /\ \A c \in 0..(C - 1), d \in 0..(n - 1), col \in 0..(cols - 1) :
                 Cell(last.res, c * n + d, col) = <<d, c, col>>

\* what holds of the code instead: row d * C + c is draw d of chain c
DrawMajorRows ==
    SampledByCmdStanPy =>
       LET n == Draws.shape[1]
           C == Draws.shape[2]
           cols == Draws.shape[3]
       IN  /\ last.res.shape = <<C * n, cols>>
           /\ \A c \in 0..(C - 1), d \in 0..(n - 1), col \in 0..(cols - 1) :
                 Cell(last.res, d * C + c, col) = <<d, c, col>>

\* the number of columns of the engine's result stored under key
RunWidth(key) ==
    Cardinality({i \in 1..Len(last.outcomes[1].result.column_names) :
                    Key(BaseName(last.outcomes[1].result.column_names[i])) = key})

VectorKeys == {Key(<<"delta">>), Key(<<"beta">>)}

\* C5 (as stated): a returned parameter other than delta and beta whose run is
\* one column wide is a 1-D array of length rows; delta and beta have at least
\* two dimensions, also when their run is one column wide.
C5_ResultShapes ==
    SampledByCmdStanPy =>
       \A i \in 1..Len(last.params) :
          LET par == last.params[i]
          IN  /\ (par.key \notin VectorKeys /\ RunWidth(par.key) = 1) =>
                    par.val.shape = <<last.res.shape[1]>>
              /\ par.key \in VectorKeys => Len(par.val.shape) >= 2

\* what holds of the code instead: every parameter one column wide, delta and
\* beta too, is a 1-D array, and every wider one is rows x width
OneColumnIsFlat ==
    SampledByCmdStanPy =>
       \A i \in 1..Len(last.params) :
          LET par == last.params[i]
          IN  par.val.shape = IF RunWidth(par.key) = 1 THEN <<last.res.shape[1]>>
                              ELSE <<last.res.shape[1], RunWidth(par.key)>>

\* C6 (as stated): the engine gets the caller's chains, iter_sampling and
\* iter_warmup, each where given, and 4, samples // 2 and samples // 2 where not.
C6_SamplingArguments ==
    (last.op = "sampling" /\ backend = "CmdStanPyBackend" /\ Len(last.calls) = 1) =>
       LET args == last.calls[1]
           given(key, default) ==
              IF key \in DOMAIN last.kwargs THEN last.kwargs[key] ELSE default
       IN  /\ args["chains"] = given("chains", 4)
           /\ args["iter_sampling"] = given("iter_sampling", last.samples \div 2)
           /\ args["iter_warmup"] = given("iter_warmup", last.samples \div 2)

\* what holds of the code instead: iter_sampling is samples // 2 whatever the
\* caller gives
IterSamplingIsHalfOfSamples ==
    (last.op = "sampling" /\ backend = "CmdStanPyBackend" /\ Len(last.calls) = 1) =>
       LET args == last.calls[1]
           given(key, default) ==
              IF key \in DOMAIN last.kwargs THEN last.kwargs[key] ELSE default
       IN  /\ args["chains"] = given("chains", 4)
           /\ args["iter_sampling"] = last.samples \div 2
           /\ args["iter_warmup"] = given("iter_warmup", last.samples \div 2)

=============================================================================
